---- MODULE Spec2Model ----
(***************************************************************************)
(* emticketen: ticket inventory on PostgreSQL (READ COMMITTED).            *)
(* The tables events, products, orders and tickets are modelled with the   *)
(* engine state the code relies on: which connection inserted a row and    *)
(* has not committed it yet (xmin), which connection holds the row lock    *)
(* of a ticket (lock) and the order id that connection has written but not *)
(* committed (pend).  Every SQL statement is one atomic step.              *)
(***************************************************************************)
EXTENDS Integers, FiniteSets, Sequences, TLC

\* ---- bounds of the model ------------------------------------------------
NConn == 2          \* pooled connections in use at the same time
MaxQuota == 2       \* largest quota / reserve quantity a caller asks for
MaxEventId == 2     \* last value of the events identity sequence
MaxProductId == 1   \* last value of the products identity sequence
MaxOrderId == 2     \* last value of the orders identity sequence
MaxTicketId == 3    \* last value of the tickets identity sequence
MaxReserved == 2    \* the tally of successfully reserved quantities counts up to this

Conns == 1..NConn
EventSlugs == {"test-event"}
ProductSlugs == {"test-product"}
Quotas == 1..MaxQuota
Quantities == 1..MaxQuota
ProductIds == 1..MaxProductId

NULL == 0           \* SQL NULL in tickets.order_id
Committed == 0      \* xmin of a committed row; lock of an unlocked row

VARIABLES
    events,     \* table events:   set of [id, slug, xmin]
    products,   \* table products: set of [id, event_id, slug, quota, xmin]
    orders,     \* table orders:   set of [id, event_id, xmin]
    tickets,    \* table tickets:  ticket id -> [product_id, order_id, xmin, lock, pend]
    seq,        \* identity sequences (last value handed out), never rolled back
    tx,         \* per connection: "idle", "intrans", or "failed" (NotEnoughTickets raised)
    last,       \* the most recent call: operation, connection, outcome, returned values
    okQty,      \* per product: quantities of all reserve calls that returned normally
    txQty,      \* per connection, per product: the same, inside the open transaction
    doneQty     \* per product: the same, of transactions that committed

vars == <<events, products, orders, tickets, seq, tx, last, okQty, txQty, doneQty>>

\* ---- helpers ------------------------------------------------------------
Min(a, b) == IF a < b THEN a ELSE b

\* a row is in a connection's snapshot when it is committed or its own
Visible(c, r) == r.xmin = Committed \/ r.xmin = c

\* tickets.order_id as connection c reads it
OrderIdSeen(c, t) == IF t.lock = c /\ t.pend # NULL THEN t.pend ELSE t.order_id

TicketsOf(c, product_id) ==
    {i \in DOMAIN tickets : Visible(c, tickets[i]) /\ tickets[i].product_id = product_id}

\* the filter "order_id is null" left out
FreeSeenAll(c, product_id) == TicketsOf(c, product_id)

\* the filter evaluated on committed order ids only
FreeSeenCommitted(c, product_id) ==
    {i \in TicketsOf(c, product_id) : tickets[i].order_id = NULL}

\* where product_id = %s and order_id is null
FreeSeen(c, product_id) ==
    {i \in TicketsOf(c, product_id) : OrderIdSeen(c, tickets[i]) = NULL}

\* record of a call: op/conn/out, the id of the returned row (id), the ticket
\* ids returned or locked (rows), the requested quantity (qty), a returned
\* count (n), the product ids listed and reported available (listed, avail),
\* the order and product arguments (order, product), the number of rows the
\* skip-locked scan could take just before the call (pre), those of the rows
\* taken whose lock the connection already held (own), and for a rollback
\* whether the transaction had hit NotEnoughTickets (failed)
NoCall ==
    [op |-> "none", conn |-> 0, out |-> "ok", id |-> 0, rows |-> {},
     qty |-> 0, n |-> 0, listed |-> {}, avail |-> {}, order |-> 0, product |-> 0,
     pre |-> 0, own |-> {}, failed |-> FALSE]

Call(op, c, out) == [NoCall EXCEPT !.op = op, !.conn = c, !.out = out]

\* psycopg opens a transaction with the first statement of a connection
\* that is not in autocommit mode
Begin(c) == [tx EXCEPT ![c] = IF @ = "idle" THEN "intrans" ELSE @]

\* a caller whose reserve raised NotEnoughTickets rolls back before it
\* uses the connection again
Usable(c) == tx[c] # "failed"

ZeroQty == [p \in ProductIds |-> 0]

Init ==
    /\ events = {}
    /\ products = {}
    /\ orders = {}
    /\ tickets = [i \in {} |-> NULL]
    /\ seq = [events |-> 0, products |-> 0, orders |-> 0, tickets |-> 0]
    /\ tx = [c \in Conns |-> "idle"]
    /\ last = NoCall
    /\ okQty = ZeroQty
    /\ txQty = [c \in Conns |-> ZeroQty]
    /\ doneQty = ZeroQty

\* ---- utils.py -----------------------------------------------------------
\* get_row declares two positional parameters; the rest is keyword-only
GetRowPositional == 2

\* ensure_row's fallback lookup unpacks the dict of unique fields with a
\* single star, which passes its keys as further positional arguments
EnsureRowLookupArgs(unique_fields) == 2 + Len(unique_fields)

\* what ensure_row does once INSERT ... ON CONFLICT DO NOTHING returned no row
EnsureRowFallback(unique_fields, found) ==
    IF EnsureRowLookupArgs(unique_fields) > GetRowPositional THEN "TypeError"
    ELSE IF found = {} THEN "AssertionError"
    ELSE "ok"

\* INSERT ... ON CONFLICT waits for an uncommitted row of another
\* transaction that holds the same unique key
InsertWaits(c, rows) == \E r \in rows : ~Visible(c, r)

\* ---- models.py: Event ---------------------------------------------------
SameEvent(slug) == {r \in events : r.slug = slug}

EnsureEvent(c, slug) ==
    /\ Usable(c)
    /\ ~InsertWaits(c, SameEvent(slug))
    /\ tx' = Begin(c)
    /\ IF SameEvent(slug) = {}
       THEN /\ seq.events < MaxEventId
            /\ seq' = [seq EXCEPT !.events = @ + 1]
            /\ events' = events \cup {[id |-> seq.events + 1, slug |-> slug, xmin |-> c]}
            /\ last' = [Call("Event.ensure", c, "ok") EXCEPT !.id = seq.events + 1]
       ELSE /\ UNCHANGED <<events, seq>>
            /\ last' = [Call("Event.ensure", c, EnsureRowFallback(<<"slug">>, SameEvent(slug)))
                          EXCEPT !.id = IF EnsureRowFallback(<<"slug">>, SameEvent(slug)) = "ok"
                                        THEN (CHOOSE r \in SameEvent(slug) : TRUE).id ELSE 0]
    /\ UNCHANGED <<products, orders, tickets, okQty, txQty, doneQty>>

\* ---- models.py: Product -------------------------------------------------
SameProduct(event_id, slug) == {r \in products : r.event_id = event_id /\ r.slug = slug}

\* the Event, Order and Product values a caller can pass on connection c
\* are those of rows the connection can read
EventsOf(c) == {r.id : r \in {e \in events : Visible(c, e)}}
OrdersOf(c) == {r.id : r \in {o \in orders : Visible(c, o)}}
ProductsOf(c) == {[id |-> r.id, quota |-> r.quota] : r \in {p \in products : Visible(c, p)}}

FreshTicket(c, product_id) ==
    [product_id |-> product_id, order_id |-> NULL, xmin |-> c, lock |-> Committed, pend |-> NULL]

\* insert into tickets (product_id) select %s from generate_series(1, %s)
InsertTickets(c, product_id, n) ==
    [i \in DOMAIN tickets \cup (seq.tickets + 1 .. seq.tickets + n) |->
        IF i \in DOMAIN tickets THEN tickets[i] ELSE FreshTicket(c, product_id)]

\* the insert of quota rows whatever the count is
EnsureTicketsInsertsAlways(c, self) == self.quota

\* one row short of the quota
EnsureTicketsInsertsShort(c, self) ==
    LET count == Cardinality(TicketsOf(c, self.id)) IN
    IF count < self.quota THEN self.quota - count - 1 ELSE 0

\* the insert of quota rows when rows are missing, the count not subtracted
EnsureTicketsInsertsQuota(c, self) ==
    LET count == Cardinality(TicketsOf(c, self.id)) IN
    IF count < self.quota THEN self.quota ELSE 0

\* Product.ensure_tickets: how many rows it inserts, and how it ends
EnsureTicketsInserts(c, self) ==
    LET count == Cardinality(TicketsOf(c, self.id)) IN
    IF count < self.quota THEN self.quota - count ELSE 0

EnsureTicketsOut(c, self) ==
    LET count == Cardinality(TicketsOf(c, self.id)) IN
    IF count > self.quota THEN "NotImplementedError" ELSE "ok"

EnsureProduct(c, event_id, slug, quota) ==
    /\ Usable(c)
    /\ event_id \in EventsOf(c)
    /\ ~InsertWaits(c, SameProduct(event_id, slug))
    /\ tx' = Begin(c)
    /\ IF SameProduct(event_id, slug) = {}
       THEN LET self == [id |-> seq.products + 1, quota |-> quota] IN
            /\ seq.products < MaxProductId
            /\ seq.tickets + EnsureTicketsInserts(c, self) <= MaxTicketId
            /\ products' = products \cup
                 {[id |-> self.id, event_id |-> event_id, slug |-> slug,
                   quota |-> quota, xmin |-> c]}
            /\ tickets' = InsertTickets(c, self.id, EnsureTicketsInserts(c, self))
            /\ seq' = [seq EXCEPT !.products = @ + 1,
                                  !.tickets = @ + EnsureTicketsInserts(c, self)]
            /\ last' = [Call("Product.ensure", c, EnsureTicketsOut(c, self))
                          EXCEPT !.id = self.id, !.qty = quota,
                                 !.n = EnsureTicketsInserts(c, self)]
       ELSE LET found == SameProduct(event_id, slug)
                out == EnsureRowFallback(<<"event_id", "slug">>, found)
                self == [id |-> (CHOOSE r \in found : TRUE).id,
                         quota |-> (CHOOSE r \in found : TRUE).quota]
            IN
            /\ out = "ok" => seq.tickets + EnsureTicketsInserts(c, self) <= MaxTicketId
            /\ products' = products
            /\ tickets' = IF out = "ok"
                          THEN InsertTickets(c, self.id, EnsureTicketsInserts(c, self))
                          ELSE tickets
            /\ seq' = [seq EXCEPT !.tickets = IF out = "ok"
                                              THEN @ + EnsureTicketsInserts(c, self) ELSE @]
            /\ last' = [Call("Product.ensure", c,
                             IF out = "ok" THEN EnsureTicketsOut(c, self) ELSE out)
                          EXCEPT !.id = IF out = "ok" THEN self.id ELSE 0, !.qty = quota]
    /\ UNCHANGED <<events, orders, okQty, txQty, doneQty>>

EnsureTickets(c, self) ==
    /\ Usable(c)
    /\ self \in ProductsOf(c)
    /\ seq.tickets + EnsureTicketsInserts(c, self) <= MaxTicketId
    /\ tx' = Begin(c)
    /\ tickets' = InsertTickets(c, self.id, EnsureTicketsInserts(c, self))
    /\ seq' = [seq EXCEPT !.tickets = @ + EnsureTicketsInserts(c, self)]
    /\ last' = [Call("Product.ensure_tickets", c, EnsureTicketsOut(c, self))
                  EXCEPT !.id = self.id, !.qty = self.quota,
                         !.n = EnsureTicketsInserts(c, self)]
    /\ UNCHANGED <<events, products, orders, okQty, txQty, doneQty>>

\* ensure_tickets on a Product value the caller built itself for a product
\* it reads, Product(id=..., quota=...), with the quota it wants
EnsureTicketsOf(c, self) ==
    /\ Usable(c)
    /\ \E p \in ProductsOf(c) : p.id = self.id
    /\ seq.tickets + EnsureTicketsInserts(c, self) <= MaxTicketId
    /\ tx' = Begin(c)
    /\ tickets' = InsertTickets(c, self.id, EnsureTicketsInserts(c, self))
    /\ seq' = [seq EXCEPT !.tickets = @ + EnsureTicketsInserts(c, self)]
    /\ last' = [Call("Product.ensure_tickets", c, EnsureTicketsOut(c, self))
                  EXCEPT !.id = self.id, !.qty = self.quota,
                         !.n = EnsureTicketsInserts(c, self)]
    /\ UNCHANGED <<events, products, orders, okQty, txQty, doneQty>>

\* the scan skipping every locked row, the connection's own locks included
LockableSkipsOwn(c, product_id) ==
    {i \in FreeSeen(c, product_id) : tickets[i].lock = Committed}

\* the scan without "skip locked" and without waiting: rows locked by other
\* transactions are taken as well
LockableNoSkip(c, product_id) == FreeSeen(c, product_id)

\* rows the scan "where product_id = %s and order_id is null ... for update
\* skip locked" can take: free as the connection reads them and not locked by
\* another open transaction
Lockable(c, product_id) ==
    {i \in FreeSeen(c, product_id) : tickets[i].lock \in {Committed, c}}

\* the probe written as a claim: the row is marked with an order id as well
LockTicketsMarks(c, S) ==
    [i \in DOMAIN tickets |->
        IF i \in S THEN [tickets[i] EXCEPT !.lock = c, !.pend = MaxOrderId] ELSE tickets[i]]

\* select for update: take the row lock
LockTickets(c, S) ==
    [i \in DOMAIN tickets |-> IF i \in S THEN [tickets[i] EXCEPT !.lock = c] ELSE tickets[i]]

\* the correlated subquery of get_products_with_availability locks one row
\* of each product that has a row to take; probe maps those products to the row
Availability(c, event_id) ==
    /\ Usable(c)
    /\ event_id \in EventsOf(c)
    /\ tx' = Begin(c)
    /\ LET listed == {r.id : r \in {p \in products : Visible(c, p) /\ p.event_id = event_id}}
           hit == {p \in listed : Lockable(c, p) # {}}
       IN \E probe \in [hit -> DOMAIN tickets] :
            /\ \A p \in hit : probe[p] \in Lockable(c, p)
            /\ tickets' = LockTickets(c, {probe[p] : p \in hit})
            /\ last' = [Call("Product.get_products_with_availability", c, "ok")
                          EXCEPT !.id = event_id, !.listed = listed, !.avail = hit,
                                 !.rows = {probe[p] : p \in hit}]
    /\ UNCHANGED <<events, products, orders, seq, okQty, txQty, doneQty>>

\* ---- models.py: Order ---------------------------------------------------
CreateOrder(c, event_id) ==
    /\ Usable(c)
    /\ event_id \in EventsOf(c)
    /\ seq.orders < MaxOrderId
    /\ tx' = Begin(c)
    /\ orders' = orders \cup {[id |-> seq.orders + 1, event_id |-> event_id, xmin |-> c]}
    /\ seq' = [seq EXCEPT !.orders = @ + 1]
    /\ last' = [Call("Order.create", c, "ok") EXCEPT !.id = seq.orders + 1]
    /\ UNCHANGED <<events, products, tickets, okQty, txQty, doneQty>>

\* ---- models.py: Ticket --------------------------------------------------
\* the update made durable at once, as on an autocommit connection
ClaimTicketsAtOnce(c, S, order_id) ==
    [i \in DOMAIN tickets |->
        IF i \in S THEN [tickets[i] EXCEPT !.order_id = order_id] ELSE tickets[i]]

\* update tickets set order_id = %s from reserved where tickets.id = reserved.id
ClaimTickets(c, S, order_id) ==
    [i \in DOMAIN tickets |->
        IF i \in S THEN [tickets[i] EXCEPT !.lock = c, !.pend = order_id] ELSE tickets[i]]

\* the scan without its limit: every row it can take
LimitAll(rows, quantity) == {rows}

\* the scan waiting until it can take `quantity` rows
LimitWaits(rows, quantity) == {S \in SUBSET rows : Cardinality(S) = quantity}

\* limit %s
Limit(rows, quantity) == {S \in SUBSET rows : Cardinality(S) = Min(quantity, Cardinality(rows))}

\* the length check off by one
ReserveOutOffByOne(S, quantity) ==
    IF Cardinality(S) <= quantity THEN "NotEnoughTickets" ELSE "ok"

\* reserve without the length check
ReserveOutNoCheck(S, quantity) == "ok"

\* if len(rows) < quantity: raise NotEnoughTickets()
ReserveOut(S, quantity) == IF Cardinality(S) < quantity THEN "NotEnoughTickets" ELSE "ok"

Reserve(c, order_id, product, quantity) ==
    /\ Usable(c)
    /\ order_id \in OrdersOf(c)
    /\ product \in ProductsOf(c)
    /\ \E S \in Limit(Lockable(c, product.id), quantity) :
         /\ tickets' = ClaimTickets(c, S, order_id)
         /\ tx' = [tx EXCEPT ![c] = IF ReserveOut(S, quantity) = "ok" THEN "intrans" ELSE "failed"]
         /\ okQty' = [okQty EXCEPT ![product.id] =
                        IF ReserveOut(S, quantity) = "ok"
                        THEN Min(@ + quantity, MaxReserved) ELSE @]
         /\ txQty' = [txQty EXCEPT ![c][product.id] =
                        IF ReserveOut(S, quantity) = "ok" THEN @ + quantity ELSE @]
         /\ last' = [Call("Ticket.reserve", c, ReserveOut(S, quantity))
                       EXCEPT !.rows = S, !.qty = quantity, !.order = order_id,
                              !.product = product.id,
                              !.pre = Cardinality(Lockable(c, product.id)),
                              !.own = {i \in S : tickets[i].lock = c}]
    /\ UNCHANGED <<events, products, orders, seq, doneQty>>

\* "async with aconn.transaction(): await Ticket.reserve(...)" on a connection
\* that is already in a transaction: SAVEPOINT, reserve, then RELEASE, or
\* ROLLBACK TO SAVEPOINT when reserve raised
ReserveInSavepoint(c, order_id, product, quantity) ==
    /\ tx[c] = "intrans"
    /\ order_id \in OrdersOf(c)
    /\ product \in ProductsOf(c)
    /\ \E S \in Limit(Lockable(c, product.id), quantity) :
         /\ tickets' = IF ReserveOut(S, quantity) = "ok"
                       THEN ClaimTickets(c, S, order_id) ELSE tickets
         /\ okQty' = [okQty EXCEPT ![product.id] =
                        IF ReserveOut(S, quantity) = "ok"
                        THEN Min(@ + quantity, MaxReserved) ELSE @]
         /\ txQty' = [txQty EXCEPT ![c][product.id] =
                        IF ReserveOut(S, quantity) = "ok" THEN @ + quantity ELSE @]
         /\ last' = [Call("savepoint Ticket.reserve", c, ReserveOut(S, quantity))
                       EXCEPT !.rows = S, !.qty = quantity, !.order = order_id,
                              !.product = product.id,
                              !.pre = Cardinality(Lockable(c, product.id)),
                              !.own = {i \in S : tickets[i].lock = c}]
    /\ UNCHANGED <<events, products, orders, seq, tx, doneQty>>

CountFree(c, product) ==
    /\ Usable(c)
    /\ product \in ProductsOf(c)
    /\ tx' = Begin(c)
    /\ last' = [Call("Ticket.count_free", c, "ok")
                  EXCEPT !.product = product.id,
                         !.n = Cardinality(FreeSeen(c, product.id))]
    /\ UNCHANGED <<events, products, orders, tickets, seq, okQty, txQty, doneQty>>

\* ---- transactions -------------------------------------------------------
CommitTickets(c) ==
    [i \in DOMAIN tickets |->
        LET t == tickets[i] IN
        [t EXCEPT !.xmin = IF @ = c THEN Committed ELSE @,
                  !.order_id = IF t.lock = c /\ t.pend # NULL THEN t.pend ELSE @,
                  !.lock = IF @ = c THEN Committed ELSE @,
                  !.pend = IF t.lock = c THEN NULL ELSE @]]

\* the rollback that makes the written order ids durable
RollbackTicketsKeepsClaims(c) ==
    [i \in {j \in DOMAIN tickets : tickets[j].xmin # c} |->
        LET t == tickets[i] IN
        [t EXCEPT !.order_id = IF t.lock = c /\ t.pend # NULL THEN t.pend ELSE @,
                  !.lock = IF @ = c THEN Committed ELSE @,
                  !.pend = IF t.lock = c THEN NULL ELSE @]]

\* the rollback that leaves the row locks behind
RollbackTicketsKeepsLocks(c) ==
    [i \in {j \in DOMAIN tickets : tickets[j].xmin # c} |->
        LET t == tickets[i] IN [t EXCEPT !.pend = IF t.lock = c THEN NULL ELSE @]]

RollbackTickets(c) ==
    [i \in {j \in DOMAIN tickets : tickets[j].xmin # c} |->
        LET t == tickets[i] IN
        [t EXCEPT !.lock = IF @ = c THEN Committed ELSE @,
                  !.pend = IF t.lock = c THEN NULL ELSE @]]

CommitRows(c, rows) == {[r EXCEPT !.xmin = IF @ = c THEN Committed ELSE @] : r \in rows}

RollbackRows(c, rows) == {r \in rows : r.xmin # c}

Commit(c) ==
    /\ tx[c] = "intrans"
    /\ events' = CommitRows(c, events)
    /\ products' = CommitRows(c, products)
    /\ orders' = CommitRows(c, orders)
    /\ tickets' = CommitTickets(c)
    /\ tx' = [tx EXCEPT ![c] = "idle"]
    /\ doneQty' = [p \in ProductIds |-> doneQty[p] + txQty[c][p]]
    /\ txQty' = [txQty EXCEPT ![c] = ZeroQty]
    /\ last' = Call("commit", c, "ok")
    /\ UNCHANGED <<seq, okQty>>

Rollback(c) ==
    /\ tx[c] # "idle"
    /\ events' = RollbackRows(c, events)
    /\ products' = RollbackRows(c, products)
    /\ orders' = RollbackRows(c, orders)
    /\ tickets' = RollbackTickets(c)
    /\ tx' = [tx EXCEPT ![c] = "idle"]
    /\ txQty' = [txQty EXCEPT ![c] = ZeroQty]
    /\ last' = [Call("rollback", c, "ok") EXCEPT !.failed = (tx[c] = "failed")]
    /\ UNCHANGED <<seq, okQty, doneQty>>

\* a caller that catches NotEnoughTickets and commits all the same
CommitAfterFailure(c) ==
    /\ tx[c] = "failed"
    /\ events' = CommitRows(c, events)
    /\ products' = CommitRows(c, products)
    /\ orders' = CommitRows(c, orders)
    /\ tickets' = CommitTickets(c)
    /\ tx' = [tx EXCEPT ![c] = "idle"]
    /\ doneQty' = [p \in ProductIds |-> doneQty[p] + txQty[c][p]]
    /\ txQty' = [txQty EXCEPT ![c] = ZeroQty]
    /\ last' = [Call("commit", c, "ok") EXCEPT !.failed = TRUE]
    /\ UNCHANGED <<seq, okQty>>

\* ---- measures used by the properties ------------------------------------
RECURSIVE SumOver(_, _)
SumOver(f, S) == IF S = {} THEN 0 ELSE LET x == CHOOSE y \in S : TRUE IN f[x] + SumOver(f, S \ {x})

\* ticket rows of a product, whoever inserted them
RowsOf(product_id) == {i \in DOMAIN tickets : tickets[i].product_id = product_id}

\* rows that carry an order id, committed or written by an open transaction
Claimed(product_id) ==
    {i \in RowsOf(product_id) : tickets[i].order_id # NULL \/ tickets[i].pend # NULL}

\* rows whose committed order id is set / is null
Sold(product_id) == {i \in RowsOf(product_id) : tickets[i].order_id # NULL}
CommittedFree(product_id) ==
    {i \in RowsOf(product_id) : tickets[i].xmin = Committed /\ tickets[i].order_id = NULL}

Quiescent == \A c \in Conns : tx[c] = "idle"

ReserveOps == {"Ticket.reserve", "savepoint Ticket.reserve"}

\* ---- C1 -----------------------------------------------------------------
\* C1: no overselling. In every state the tickets of a product that carry an
\* order id (committed or written by an open transaction) are at most the
\* product's quota, and so are the quantities granted by successful reserve
\* calls of committed and open transactions together; a ticket that carries
\* an order id is never handed to another order or another transaction.
C1_NoOverselling ==
    /\ [](\A p \in products :
            /\ Cardinality(Claimed(p.id)) <= p.quota
            /\ doneQty[p.id] + SumOver([c \in Conns |-> txQty[c][p.id]], Conns) <= p.quota)
    /\ [][\A i \in DOMAIN tickets :
            /\ tickets[i].order_id # NULL =>
                 /\ i \in DOMAIN tickets'
                 /\ tickets'[i].order_id = tickets[i].order_id
                 /\ tickets'[i].pend = NULL
            /\ (tickets[i].pend # NULL /\ i \in DOMAIN tickets') =>
                 \/ tickets'[i].pend = tickets[i].pend /\ tickets'[i].lock = tickets[i].lock
                 \/ tickets'[i].pend = NULL /\ tickets'[i].lock = Committed
                      /\ tickets'[i].order_id \in {NULL, tickets[i].pend}]_vars

\* every ticket of a product is sold, to two different orders
C1_Witness ==
    \E p \in products :
        /\ Cardinality(Sold(p.id)) = p.quota
        /\ \E i, j \in Sold(p.id) : tickets[i].order_id # tickets[j].order_id

\* ---- C2 -----------------------------------------------------------------
\* C2 as stated: at quiescence the sold tickets of a product number the sum
\* of the quantities of all reserve calls that succeeded, and quota minus
\* the free count.
C2_AsStated ==
    Quiescent =>
        \A p \in products :
            /\ okQty[p.id] < MaxReserved => Cardinality(Sold(p.id)) = okQty[p.id]
            /\ Cardinality(Sold(p.id)) = p.quota - Cardinality(CommittedFree(p.id))

\* C2 amended: at quiescence the sold tickets of a product number the sum of
\* the quantities of the successful reserve calls whose transaction
\* committed, and quota minus the free count.
C2_QuiescenceAccounting ==
    Quiescent =>
        \A p \in products :
            /\ Cardinality(Sold(p.id)) = doneQty[p.id]
            /\ Cardinality(Sold(p.id)) = p.quota - Cardinality(CommittedFree(p.id))

\* quiescent, something is sold, and a transaction that had reserved
\* successfully was rolled back after a later reserve of it failed
C2_Witness ==
    /\ Quiescent
    /\ last.op = "rollback" /\ last.failed
    /\ \E p \in products : doneQty[p.id] >= 1 /\ okQty[p.id] > doneQty[p.id]

\* ---- C3 -----------------------------------------------------------------
\* order ids of the committed rows of a product, as they stand once
\* connection c has rolled back
AfterRollback(tk, c, product_id) ==
    {i \in DOMAIN tk :
        tk[i].product_id = product_id /\ tk[i].xmin # c /\ tk[i].order_id = NULL}

\* C3: all-or-nothing. A reserve that raises NotEnoughTickets changes
\* neither the committed free tickets of any product nor the free tickets
\* the product has once the caller rolls back; inside a savepoint it leaves
\* the tickets table as it was.  The rollback of the transaction leaves the
\* committed free tickets as they were, and afterwards the connection holds
\* no lock and no order id on any ticket.
C3_AllOrNothing ==
    [][/\ (last'.op \in ReserveOps /\ last'.out = "NotEnoughTickets") =>
            /\ \A p \in products :
                 /\ CommittedFree(p.id)' = CommittedFree(p.id)
                 /\ AfterRollback(tickets', last'.conn, p.id) =
                      AfterRollback(tickets, last'.conn, p.id)
            /\ last'.op = "savepoint Ticket.reserve" => tickets' = tickets
       /\ (last'.op = "rollback" /\ last'.failed) =>
            /\ \A p \in products' : CommittedFree(p.id)' = CommittedFree(p.id)
            /\ \A i \in DOMAIN tickets' :
                 /\ tickets'[i].lock # last'.conn
                 /\ tickets'[i].xmin # last'.conn
                 /\ tickets'[i].order_id = tickets[i].order_id]_vars

\* a transaction whose reserve took fewer rows than asked was rolled back
\* while the product still has a free ticket
C3_Witness ==
    /\ last.op = "rollback" /\ last.failed
    /\ \E p \in products : CommittedFree(p.id) # {}

\* ---- C4 -----------------------------------------------------------------
\* tickets of the product that connection c reads with a null order id and
\* that no other open transaction has locked
FreeAndUnlocked(c, product_id) ==
    {i \in DOMAIN tickets :
        /\ tickets[i].product_id = product_id
        /\ tickets[i].xmin \in {Committed, c}
        /\ tickets[i].order_id = NULL
        /\ tickets[i].lock = c => tickets[i].pend = NULL
        /\ tickets[i].lock \in {Committed, c}}

\* C4: a reserve succeeds if and only if at least `quantity` tickets of the
\* product are free and not locked by another open transaction; rows that
\* another transaction claimed without committing are not counted, the rest
\* can be reserved at once; after the holder commits and the failed caller
\* rolls back, the free count is the quota minus the committed claims.
C4_ReserveOutcome ==
    /\ [][last'.op \in ReserveOps =>
            /\ last'.out = "ok" <=>
                 Cardinality(FreeAndUnlocked(last'.conn, last'.product)) >= last'.qty
            /\ last'.out \in {"ok", "NotEnoughTickets"}]_vars
    /\ [](\A c, d \in Conns : \A p \in ProductsOf(c) : \A o \in OrdersOf(c) :
            (/\ c # d /\ Usable(c)
             /\ \E i \in RowsOf(p.id) : tickets[i].lock = d /\ tickets[i].pend # NULL) =>
              \A q \in Quantities :
                 q <= Cardinality(FreeAndUnlocked(c, p.id)) => ENABLED Reserve(c, o, p, q))
    /\ []((Quiescent /\ last.op = "rollback" /\ last.failed) =>
            \A p \in products : Cardinality(CommittedFree(p.id)) = p.quota - doneQty[p.id])

\* a reserve of no more than the quota failed, taking only the rows left
\* over by the uncommitted claims of another open transaction
C4_Witness ==
    /\ last.op = "Ticket.reserve" /\ last.out = "NotEnoughTickets" /\ last.rows # {}
    /\ \E p \in products :
         /\ p.id = last.product /\ last.qty <= p.quota
         /\ \E i \in RowsOf(p.id) :
              tickets[i].lock \notin {Committed, last.conn} /\ tickets[i].pend # NULL

\* ---- C5 -----------------------------------------------------------------
\* C5: idempotent ensure. A unique key is held by at most one row, and every
\* Event.ensure and Product.ensure call returns normally with the id of the
\* row that holds its key.
C5_IdempotentEnsure ==
    /\ \A slug \in EventSlugs : Cardinality(SameEvent(slug)) <= 1
    /\ \A e \in 1..MaxEventId, slug \in ProductSlugs : Cardinality(SameProduct(e, slug)) <= 1
    /\ last.op = "Event.ensure" =>
         /\ last.out = "ok"
         /\ \E r \in events : Visible(last.conn, r) /\ r.id = last.id
    /\ last.op = "Product.ensure" =>
         /\ last.out = "ok"
         /\ \E r \in products : Visible(last.conn, r) /\ r.id = last.id

\* ---- C6 -----------------------------------------------------------------
\* C6: quota growth. After Product.ensure is called with a quota that is at
\* least the quota of the product row of the same (event, slug), the product
\* has exactly the quota of that call in ticket rows.
C6_QuotaGrowth ==
    last.op = "Product.ensure" =>
        \A p \in products :
            (Visible(last.conn, p) /\ p.quota <= last.qty) =>
                Cardinality(TicketsOf(last.conn, p.id)) = last.qty

C8_ClaimPermanent ==
    [][\A i \in DOMAIN tickets :
          /\ tickets[i].order_id # NULL =>
               /\ i \in DOMAIN tickets'
               /\ tickets'[i].order_id = tickets[i].order_id
               /\ tickets'[i].pend = NULL
          /\ i \in DOMAIN tickets' =>
               /\ tickets'[i].product_id = tickets[i].product_id
               /\ tickets'[i].order_id # tickets[i].order_id =>
                    /\ tickets[i].order_id = NULL
                    /\ last'.op = "commit" /\ tickets[i].lock = last'.conn
                    /\ tickets'[i].order_id = tickets[i].pend
               /\ (tickets[i].pend = NULL /\ tickets'[i].pend # NULL) =>
                    /\ last'.op \in ReserveOps
                    /\ i \in last'.rows /\ tickets'[i].pend = last'.order
                    /\ i \in FreeAndUnlocked(last'.conn, last'.product)
               /\ (tickets[i].pend # NULL /\ last'.op \notin {"commit", "rollback"}) =>
                    tickets'[i].pend = tickets[i].pend]_vars

\* a reserve for another order succeeded on a product that already had a
\* sold ticket
C8_Witness ==
    /\ last.op \in ReserveOps /\ last.out = "ok"
    /\ \E i \in Sold(last.product) : tickets[i].order_id # last.order

\* ---- C9 -----------------------------------------------------------------
\* C9: availability lists every product of the event the connection reads
\* and reports a product available if and only if, at the probe, one of its
\* tickets has a null order id and is not locked by another open transaction.
C9_AvailabilityValue ==
    [][last'.op = "Product.get_products_with_availability" =>
          /\ last'.listed =
               {p.id : p \in {r \in products :
                                r.xmin \in {Committed, last'.conn} /\ r.event_id = last'.id}}
          /\ \A p \in last'.listed :
               p \in last'.avail <=> FreeAndUnlocked(last'.conn, p) # {}]_vars

\* the probe reports a sold-out product after its own connection reserved
\* the last ticket
C9_Witness ==
    /\ last.op = "Product.get_products_with_availability"
    /\ last.listed # {} /\ last.avail = {}
    /\ \E i \in DOMAIN tickets : tickets[i].lock = last.conn /\ tickets[i].pend # NULL

\* ---- C10 ----------------------------------------------------------------
\* C10: once availability has returned, its connection holds no lock on a
\* ticket it probed, and every other connection's skip-locked scan can take
\* that ticket again.
C10_ProbeReleasesLock ==
    last.op = "Product.get_products_with_availability" =>
        \A i \in last.rows :
            /\ tickets[i].lock # last.conn
            /\ \A d \in Conns \ {last.conn} :
                 tickets[i].xmin = Committed => i \in FreeAndUnlocked(d, tickets[i].product_id)

\* ---- C11 ----------------------------------------------------------------
\* connection c has written nothing in its open transaction
WroteNothing(c) ==
    /\ \A r \in events \cup products \cup orders : r.xmin # c
    /\ \A i \in DOMAIN tickets :
         tickets[i].xmin # c /\ (tickets[i].lock = c => tickets[i].pend = NULL)

\* the tickets table without the row locks
Unlocked(tk) == [i \in DOMAIN tk |-> [tk[i] EXCEPT !.lock = Committed]]

\* C11: the availability probe mutates nothing. The call leaves the events,
\* products and orders tables, the number of ticket rows and every ticket's
\* product and order id (committed, written, and as every connection reads
\* it) unchanged; a commit or rollback leaves a row that the transaction
\* only probed in place with its order id; and the commit or rollback of a
\* transaction that wrote nothing changes no table.
C11_ProbeMutatesNothing ==
    [][/\ last'.op = "Product.get_products_with_availability" =>
            /\ events' = events /\ products' = products /\ orders' = orders
            /\ seq' = seq
            /\ Unlocked(tickets') = Unlocked(tickets)
            /\ \A d \in Conns : \A i \in DOMAIN tickets :
                 OrderIdSeen(d, tickets'[i]) = OrderIdSeen(d, tickets[i])
       /\ last'.op \in {"commit", "rollback"} =>
            /\ \A i \in DOMAIN tickets :
                 (/\ tickets[i].lock = last'.conn /\ tickets[i].pend = NULL
                  /\ tickets[i].xmin # last'.conn) =>
                    /\ i \in DOMAIN tickets'
                    /\ Unlocked(tickets')[i] = Unlocked(tickets)[i]
            /\ WroteNothing(last'.conn) =>
                 /\ events' = events /\ products' = products /\ orders' = orders
                 /\ Unlocked(tickets') = Unlocked(tickets)]_vars

\* a probe that found a free ticket of a product with a sold ticket, in a
\* transaction that has written nothing
C11_Witness ==
    /\ last.op = "Product.get_products_with_availability"
    /\ last.rows # {} /\ WroteNothing(last.conn)
    /\ \E p \in last.avail : Sold(p) # {}

\* ---- C12 ----------------------------------------------------------------
\* C12: non-blocking. Whatever ticket rows other open transactions hold
\* locked, every availability call and every reserve call a connection can
\* issue (on an event, order and product it reads) can take its step at
\* once, in or outside a savepoint: none waits for another transaction.
C12_NonBlocking ==
    \A c \in Conns :
        Usable(c) =>
            /\ \A e \in EventsOf(c) : ENABLED Availability(c, e)
            /\ \A o \in OrdersOf(c), q \in Quantities : \A p \in ProductsOf(c) :
                 /\ ENABLED Reserve(c, o, p, q)
                 /\ tx[c] = "intrans" => ENABLED ReserveInSavepoint(c, o, p, q)

\* a reserve returned at once, empty-handed, while another open transaction
\* held the lock of every free ticket of the product
C12_Witness ==
    /\ last.op = "Ticket.reserve" /\ last.out = "NotEnoughTickets" /\ last.rows = {}
    /\ CommittedFree(last.product) # {}
    /\ \A i \in CommittedFree(last.product) :
         tickets[i].lock \notin {Committed, last.conn} /\ tx[tickets[i].lock] = "intrans"

\* ---- C13 ----------------------------------------------------------------
\* ticket rows of a product in the table tk that connection c reads
RowsSeen(tk, c, product_id) ==
    {i \in DOMAIN tk : tk[i].product_id = product_id /\ tk[i].xmin \in {Committed, c}}

C14_UnsupportedShrink ==
    [][/\ last'.op = "Product.ensure_tickets" =>
            (last'.qty < Cardinality(RowsSeen(tickets, last'.conn, last'.id)) =>
                last'.out = "NotImplementedError" /\ tickets' = tickets)
       /\ (last'.op = "Product.ensure" /\ products' = products) =>
            \A p \in products :
                (/\ Visible(last'.conn, p)
                 /\ last'.qty < Cardinality(RowsSeen(tickets, last'.conn, p.id))) =>
                    last'.out = "NotImplementedError" /\ tickets' = tickets]_vars

\* ---- C15 ----------------------------------------------------------------
\* C15: inventory before reservation. Whenever a connection can read a
\* product row it reads as many ticket rows of that product as the row's
\* quota, so every reserve runs against a complete inventory.
C15_InventoryBeforeReservation ==
    \A c \in Conns : \A p \in products :
        Visible(c, p) =>
            Cardinality({i \in DOMAIN tickets :
                            /\ tickets[i].product_id = p.id
                            /\ tickets[i].xmin \in {Committed, c}}) = p.quota

\* a reserve has run in the very transaction that created the product
C15_Witness ==
    /\ last.op \in ReserveOps
    /\ \E p \in products : p.id = last.product /\ p.xmin = last.conn

\* ---- C16 ----------------------------------------------------------------
\* C16: a reserve that returns normally returns exactly `quantity` tickets;
\* each belonged to the product, was in the table with no order id
\* (committed or written) just before the call, and afterwards is read by
\* the caller with the order's id; every other ticket row is unchanged.
C16_SuccessfulReserve ==
    [][(last'.op \in ReserveOps /\ last'.out = "ok") =>
          /\ Cardinality(last'.rows) = last'.qty
          /\ last'.rows \subseteq DOMAIN tickets
          /\ DOMAIN tickets' = DOMAIN tickets
          /\ \A i \in last'.rows :
               /\ tickets[i].product_id = last'.product
               /\ tickets[i].order_id = NULL /\ tickets[i].pend = NULL
               /\ tickets'[i].lock = last'.conn /\ tickets'[i].pend = last'.order
               /\ tickets'[i].order_id = NULL
               /\ tickets'[i].product_id = tickets[i].product_id
               /\ tickets'[i].xmin = tickets[i].xmin
          /\ \A i \in DOMAIN tickets \ last'.rows : tickets'[i] = tickets[i]]_vars

\* a reserve of fewer tickets than were free succeeded
C16_Witness ==
    /\ last.op = "Ticket.reserve" /\ last.out = "ok"
    /\ last.qty < last.pre
    /\ \E i \in RowsOf(last.product) : tickets[i].order_id = NULL /\ tickets[i].pend = NULL

\* ---- C17 ----------------------------------------------------------------
\* a committed product has a committed order to sell to / is sold out
Demand(product_id) ==
    /\ \E p \in products : p.id = product_id /\ p.xmin = Committed
    /\ \E o \in orders : o.xmin = Committed

SoldOut(product_id) ==
    \E p \in products : p.id = product_id /\ Cardinality(Sold(product_id)) = p.quota

C18_OwnLocksNotSkipped ==
    [][last'.op \in ReserveOps =>
          LET c == last'.conn
              mine == {i \in RowsSeen(tickets, c, last'.product) :
                          /\ tickets[i].order_id = NULL /\ tickets[i].pend = NULL
                          /\ tickets[i].lock = c}
              open == {i \in RowsSeen(tickets, c, last'.product) :
                          /\ tickets[i].order_id = NULL /\ tickets[i].pend = NULL
                          /\ tickets[i].lock = Committed}
          IN /\ last'.out = "NotEnoughTickets" <=>
                    Cardinality(mine) + Cardinality(open) < last'.qty
             /\ last'.rows \subseteq mine \cup open
             /\ last'.qty >= Cardinality(mine) + Cardinality(open) =>
                    last'.rows = mine \cup open]_vars

\* the last free ticket of a product, locked by the connection's own probe,
\* was reserved on that connection
C18_Witness ==
    /\ last.op = "Ticket.reserve" /\ last.out = "ok"
    /\ last.own # {} /\ last.own = last.rows /\ last.pre = last.qty
    /\ \A i \in RowsOf(last.product) : tickets[i].order_id # NULL \/ tickets[i].pend # NULL

\* ---- C19 ----------------------------------------------------------------
\* tickets of the product that connection c reads and that carry no order
\* id, neither committed nor written by an open transaction
Unclaimed(c, product_id) ==
    {i \in RowsSeen(tickets, c, product_id) :
        tickets[i].order_id = NULL /\ tickets[i].pend = NULL}

\* C19: probes do not starve reservations. A reserve raises NotEnoughTickets
\* only if the tickets of the product without an order id, committed or
\* written by an open transaction, are fewer than the quantity; and a probe
\* reports a product available whenever it has such a ticket and no open
\* transaction has written an order id on a ticket of the product.
C19_ProbesDoNotStarve ==
    [][/\ (last'.op \in ReserveOps /\ last'.out = "NotEnoughTickets") =>
            Cardinality(Unclaimed(last'.conn, last'.product)) < last'.qty
       /\ last'.op = "Product.get_products_with_availability" =>
            \A p \in last'.listed :
                (/\ Unclaimed(last'.conn, p) # {}
                 /\ \A i \in RowsOf(p) : tickets[i].pend = NULL) => p \in last'.avail]_vars

\* ---- C20 ----------------------------------------------------------------
\* C20 as stated: whatever the caller does after NotEnoughTickets, the rows
\* the failing reserve updated are undone, so that the committed order ids
\* of a product are never more than the quantities of the successful
\* reserves whose transaction committed.
C20_AsStated ==
    \A p \in products : Cardinality(Sold(p.id)) <= doneQty[p.id]

\* C20 amended: a reserve that fails inside a savepoint leaves the tickets
\* table as it was; one that fails outside leaves the rows it took assigned
\* to the order and locked in the open transaction; a rollback undoes them,
\* and a commit by a caller that did not hit NotEnoughTickets makes durable
\* exactly the quantities of its successful reserves; a commit issued after
\* NotEnoughTickets makes the partial rows durable as well.
C20_PartialClaims ==
    [][/\ (last'.op = "savepoint Ticket.reserve" /\ last'.out = "NotEnoughTickets") =>
            tickets' = tickets
       /\ (last'.op = "Ticket.reserve" /\ last'.out = "NotEnoughTickets") =>
            /\ tx'[last'.conn] = "failed"
            /\ \A i \in last'.rows :
                 tickets'[i].lock = last'.conn /\ tickets'[i].pend = last'.order
       /\ last'.op = "rollback" =>
            \A i \in DOMAIN tickets' :
                /\ tickets'[i].order_id = tickets[i].order_id
                /\ tickets[i].lock = last'.conn =>
                     tickets'[i].lock = Committed /\ tickets'[i].pend = NULL
       /\ last'.op = "commit" =>
            \A p \in products :
                LET added == Cardinality(Sold(p.id)') - Cardinality(Sold(p.id))
                    partial == {i \in RowsOf(p.id) :
                                   tickets[i].lock = last'.conn /\ tickets[i].pend # NULL}
                IN /\ added = Cardinality(partial)
                   /\ ~last'.failed => added = txQty[last'.conn][p.id]]_vars

\* a reserve took a row and failed in a transaction that had already
\* reserved successfully
C20_Witness ==
    /\ last.op = "Ticket.reserve" /\ last.out = "NotEnoughTickets" /\ last.rows # {}
    /\ tx[last.conn] = "failed" /\ txQty[last.conn][last.product] >= 1

Next ==
    \/ \E c \in Conns, slug \in EventSlugs : EnsureEvent(c, slug)
    \/ \E c \in Conns, e \in 1..MaxEventId, slug \in ProductSlugs, q \in Quotas :
         EnsureProduct(c, e, slug, q)
    \/ \E c \in Conns : \E self \in ProductsOf(c) : EnsureTickets(c, self)
    \/ \E c \in Conns, e \in 1..MaxEventId : Availability(c, e)
    \/ \E c \in Conns, e \in 1..MaxEventId : CreateOrder(c, e)
    \/ \E c \in Conns, o \in 1..MaxOrderId, q \in Quantities :
         \E p \in ProductsOf(c) : Reserve(c, o, p, q)
    \/ \E c \in Conns, o \in 1..MaxOrderId, q \in Quantities :
         \E p \in ProductsOf(c) : ReserveInSavepoint(c, o, p, q)
    \/ \E c \in Conns : \E p \in ProductsOf(c) : CountFree(c, p)
    \/ \E c \in Conns : Commit(c)
    \/ \E c \in Conns : Rollback(c)

Spec == Init /\ [][Next]_vars

\* the same program with callers that may commit after NotEnoughTickets
NextAnyCaller ==
    \/ Next
    \/ \E c \in Conns : CommitAfterFailure(c)

SpecAnyCaller == Init /\ [][NextAnyCaller]_vars

\* a purchase that goes through: a reserve that returns normally, and the
\* commit of a transaction that holds tickets for an order
ReserveOk(c) ==
    \E o \in 1..MaxOrderId, q \in Quantities : \E p \in ProductsOf(c) :
        Reserve(c, o, p, q) /\ last'.out = "ok"

CommitClaim(c) ==
    Commit(c) /\ \E i \in DOMAIN tickets : tickets[i].lock = c /\ tickets[i].pend # NULL

\* set-up, probes and purchases as the shop's callers make them: a
\* connection is handed back with a commit, or with a rollback after
\* NotEnoughTickets
NextDemand ==
    \/ \E c \in Conns, slug \in EventSlugs : EnsureEvent(c, slug)
    \/ \E c \in Conns, e \in 1..MaxEventId, slug \in ProductSlugs, q \in Quotas :
         EnsureProduct(c, e, slug, q)
    \/ \E c \in Conns, e \in 1..MaxEventId : Availability(c, e)
    \/ \E c \in Conns, e \in 1..MaxEventId : CreateOrder(c, e)
    \/ \E c \in Conns, o \in 1..MaxOrderId, q \in Quantities :
         \E p \in ProductsOf(c) : Reserve(c, o, p, q)
    \/ \E c \in Conns : Commit(c)
    \/ \E c \in Conns : tx[c] = "failed" /\ Rollback(c)

\* every connection is handed back in the end; under sufficient demand a
\* purchase that can go through again and again does go through
SpecDemand ==
    /\ Init /\ [][NextDemand]_vars
    /\ \A c \in Conns : WF_vars(Commit(c) \/ (tx[c] = "failed" /\ Rollback(c)))
    /\ \A c \in Conns : SF_vars(ReserveOk(c)) /\ SF_vars(CommitClaim(c))

\* inventory set-up and sale by callers that also reconcile a product to a
\* quota of their own choosing
NextReconcile ==
    \/ \E c \in Conns, slug \in EventSlugs : EnsureEvent(c, slug)
    \/ \E c \in Conns, e \in 1..MaxEventId, slug \in ProductSlugs, q \in Quotas :
         EnsureProduct(c, e, slug, q)
    \/ \E c \in Conns, id \in ProductIds, q \in Quotas :
         EnsureTicketsOf(c, [id |-> id, quota |-> q])
    \/ \E c \in Conns, e \in 1..MaxEventId : CreateOrder(c, e)
    \/ \E c \in Conns, o \in 1..MaxOrderId, q \in Quantities :
         \E p \in ProductsOf(c) : Reserve(c, o, p, q)
    \/ \E c \in Conns : Commit(c)
    \/ \E c \in Conns : Rollback(c)

SpecReconcile == Init /\ [][NextReconcile]_vars

====
